---- MODULE Spec2Model ----
(***************************************************************************)
(* AURA, a browser extension of three scripts.                             *)
(*                                                                         *)
(* The content script (src/unnamed/part_002, lines 1-763) is the selection *)
(* tracker: its state is the three module-level variables selectedContent, *)
(* lastSelection and selectedImage, the observer's currentUrl, and the two *)
(* timers armed by monitorSelectionChanges; its environment is the clock,  *)
(* the browser's text selection and the page address.  Spec.               *)
(*                                                                         *)
(* The background service worker (src/popup.js, lines 466-832) answers     *)
(* messages and fronts chrome.storage.local.  CoordinatorSpec.             *)
(*                                                                         *)
(* The popup (src/unnamed/part_001) queries the two others when it is      *)
(* opened and reacts to clicks.  PopupSpec.                                *)
(*                                                                         *)
(* Each of these specifications runs one script and leaves the two others  *)
(* as they are.  Three more combine or isolate parts: PopupPageSpec        *)
(* (the popup while the page under it moves to another address),           *)
(* MessagesSpec (the message listeners of the worker and of the content    *)
(* script) and FunctionsSpec (extractContext and checkModelAvailability    *)
(* applied to inputs drawn from bounded sets).                             *)
(***************************************************************************)
EXTENDS Integers, Sequences, FiniteSets, TLC

VARIABLES
  now,             \* Date.now(), in milliseconds since the script was loaded
  nextTick,        \* deadline of the next setInterval callback (line 152)
  initPending,     \* the setTimeout of line 147 has not fired yet
  sel,             \* window.getSelection(): the text the browser has selected
  href,            \* window.location.href
  currentUrl,      \* let currentUrl (line 740)
  selectedContent, \* let selectedContent (line 7)
  lastSelection,   \* let lastSelection (line 8)
  selectedImage,   \* let selectedImage (line 9)
  nextOid,         \* identity of the next Selection object to be allocated
  notified,        \* CONTENT_SELECTED messages handed to chrome.runtime.sendMessage
  delivery,        \* how the last handler's chrome.runtime.sendMessage call ended
  response,        \* what the last handleMessage call passed to sendResponse
  lastOp,          \* the handler that ran last ("other": one that no property singles out)
  cleared,         \* the Selection held when the browser selection was emptied, and when
  \* The background service worker (src/popup.js, lines 466-832)
  storage,         \* the contents of chrome.storage.local
  initStorage,     \* where initializeStorage (line 622) stands
  modelStatus,     \* let modelStatus (line 472)
  lastWritten,     \* per key, the value the last answered SET_STORAGE wrote, if still there
  \* The popup (src/unnamed/part_001)
  browser,         \* what the popup finds: window.ai and the active tab
  loaded,          \* the DOMContentLoaded listener (line 17) has run
  inits,           \* the calls of initializeInterface under way: how many are suspended
                   \* at each await
  currentContent,  \* let currentContent (line 10)
  currentResults,  \* let currentResults (line 11)
  isProcessing,    \* let isProcessing (line 12)
  statusText,      \* elements.statusText.textContent
  contentDisplay,  \* elements.contentDisplay.innerHTML
  disabled,        \* the disabled property of the four action buttons
  errorHidden,     \* elements.errorDisplay has class hidden
  errorMessage,    \* elements.errorMessage.textContent
  loadingHidden,   \* elements.loadingIndicator has class hidden
  resultsHidden    \* elements.resultsSection has class hidden

trackerVars == <<now, nextTick, initPending, sel, href, currentUrl, selectedContent,
                 lastSelection, selectedImage, nextOid, notified, delivery, cleared>>

coordinatorVars == <<storage, initStorage, modelStatus, lastWritten>>

popupVars == <<browser, loaded, inits, currentContent, currentResults, isProcessing,
               statusText, contentDisplay, disabled, errorHidden, errorMessage,
               loadingHidden, resultsHidden>>

vars == <<trackerVars, coordinatorVars, popupVars, response, lastOp>>

-----------------------------------------------------------------------------
(* Bounds of the model *)

MaxTime == 6000
MaxObjects == 2
MaxRuns == 2
MaxCore == 5

(* Program constants *)

SELECTION_TIMEOUT == 5000
MIN_TEXT_LENGTH == 3
MAX_TEXT_LENGTH == 10000
CLEANUP_INTERVAL == 1000
INITIAL_CHECK_DELAY == 100
minSize == 50
CONTEXT_LENGTH == 100

-----------------------------------------------------------------------------
(* Values *)

Null == [type |-> "null"]

\* The instants at which the user, the page or the popup does something: on loading,
\* at the initial check, at the first cleanup, and between and at the two cleanups that
\* follow the timeout of a selection made on loading.
EventInstants == {t \in {0, INITIAL_CHECK_DELAY, 1000, 5500, 6000} : t <= MaxTime}

\* The instants the clock stops at: those, and every deadline of the cleanup timer.
Instants == EventInstants \cup {t \in 0..MaxTime : t % CLEANUP_INTERVAL = 0}

\* A browser selection: `lead` white-space characters followed by `body` other characters.
NoBrowserSelection == [lead |-> 0, body |-> 0]
BrowserSelections ==
  { NoBrowserSelection,
    [lead |-> 1, body |-> 2],
    [lead |-> 0, body |-> 3],
    [lead |-> 1, body |-> 10001] }

Pages == {"page1", "page2"}

\* The elements a click or a right-click can land on.
Images ==
  { [tagName |-> "IMG", src |-> "imgA", naturalWidth |-> 50, naturalHeight |-> 50, visible |-> TRUE],
    [tagName |-> "IMG", src |-> "imgB", naturalWidth |-> 49, naturalHeight |-> 50, visible |-> TRUE],
    [tagName |-> "IMG", src |-> "imgB", naturalWidth |-> 50, naturalHeight |-> 49, visible |-> TRUE],
    [tagName |-> "IMG", src |-> "",     naturalWidth |-> 60, naturalHeight |-> 60, visible |-> TRUE],
    [tagName |-> "IMG", src |-> "imgB", naturalWidth |-> 60, naturalHeight |-> 60, visible |-> FALSE] }

Min(a, b) == IF a <= b THEN a ELSE b

-----------------------------------------------------------------------------
(* Strings: a string is a range of characters of a browser selection *)

\* selection.toString()
SelectionToString(s) == [of |-> s, start |-> 0, len |-> s.lead + s.body]

\* String.prototype.trim, of a string that spans a whole browser selection
Trim(str) == [of |-> str.of, start |-> str.of.lead, len |-> str.of.body]

\* String.prototype.substring(from, to), 0 <= from <= to
Substring(str, from, to) ==
  [of |-> str.of, start |-> str.start + Min(from, str.len),
   len |-> Min(to, str.len) - Min(from, str.len)]

-----------------------------------------------------------------------------
(* Helpers of the content script *)

NoClear == [at |-> -1]

\* chrome.runtime.sendMessage (lines 628-631): the message is delivered, the call throws,
\* or the promise it returns is rejected
SendOutcomes == {"delivered", "threw", "rejected"}
NoResponse == [kind |-> "none"]

\* Variant: any non-empty text qualifies
QualifiesAnyText(selectedText) == selectedText.len > 0

\* handleSelectionChange, line 181: selectedText && selectedText.length >= MIN_TEXT_LENGTH
Qualifies(selectedText) == selectedText.len > 0 /\ selectedText.len >= MIN_TEXT_LENGTH

\* Variant: the text is kept whole
ProcessedTextWhole(selectedText) == selectedText

\* handleSelectionChange, line 187: selectedText.substring(0, CONFIG.MAX_TEXT_LENGTH)
ProcessedText(selectedText) == Substring(selectedText, 0, MAX_TEXT_LENGTH)

\* isElementVisible, lines 670-688
isElementVisible(element) == element.visible

\* Variant: only an image small on both sides is rejected
isValidImageBothSidesSmall(imageElement) ==
  /\ imageElement.tagName = "IMG"
  /\ imageElement.src # ""
  /\ ~(imageElement.naturalWidth < minSize /\ imageElement.naturalHeight < minSize)
  /\ isElementVisible(imageElement)

\* isValidImage, lines 643-665
isValidImage(imageElement) ==
  /\ imageElement.tagName = "IMG"
  /\ imageElement.src # ""
  /\ ~(imageElement.naturalWidth < minSize \/ imageElement.naturalHeight < minSize)
  /\ isElementVisible(imageElement)

\* extractImageData, lines 506-543
extractImageData(imageElement, t) ==
  [url |-> imageElement.src,
   width |-> imageElement.naturalWidth,
   height |-> imageElement.naturalHeight,
   elementType |-> "img",
   isVisible |-> isElementVisible(imageElement),
   timestamp |-> t]

\* Variant: nothing is sent
notifyNothing(sent, content) == sent

\* notifySelectionChange, lines 626-638: the message is handed to the runtime
notifySelectionChange(sent, content) == Append(sent, content.oid)

\* Variant: a send that failed is repeated
sendFailedRetry(st, content) ==
  [st EXCEPT !.notified = Append(@, content.oid)]

\* The catch clause and the .catch callback of notifySelectionChange, lines 631-636
sendFailed(st, content) == st

\* The object literal of lines 192-198
TextSelection(processedText, t, url, oid) ==
  [type |-> "text", text |-> processedText, timestamp |-> t, url |-> url, oid |-> oid]

\* The object literal of lines 361-366: later keys override the keys spread before them
ImageSelection(imageData, t, url, oid) ==
  [timestamp |-> t, url |-> url, oid |-> oid] @@ imageData @@ [type |-> "image"]

\* The tracker's variables as one value
Tracker ==
  [selectedContent |-> selectedContent, lastSelection |-> lastSelection,
   selectedImage |-> selectedImage, nextOid |-> nextOid, notified |-> notified]

\* handleSelectionChange, lines 176-221, run at time t on browser selection s
handleSelectionChange(st, s, t, url) ==
  LET selectedText == Trim(SelectionToString(s)) IN
  IF Qualifies(selectedText)
  THEN LET content == TextSelection(ProcessedText(selectedText), t, url, st.nextOid) IN
       [st EXCEPT !.selectedContent = content,
                  !.lastSelection = content,
                  !.nextOid = st.nextOid + 1,
                  !.notified = notifySelectionChange(st.notified, content)]
  ELSE IF st.lastSelection # Null /\ t - st.lastSelection.timestamp < SELECTION_TIMEOUT
  THEN [st EXCEPT !.selectedContent = st.lastSelection]
  ELSE [st EXCEPT !.selectedContent =
                     IF @ # Null /\ @.type = "text" THEN Null ELSE @,
                  !.lastSelection = Null]

\* The callback of setInterval, lines 152-159
cleanupOldSelections(st, t) ==
  IF st.lastSelection # Null /\ t - st.lastSelection.timestamp > SELECTION_TIMEOUT
  THEN [st EXCEPT !.selectedContent = IF @ = st.lastSelection THEN Null ELSE @,
                  !.lastSelection = Null]
  ELSE st

\* Variant: the grace cache survives
clearSelectionKeepingCache(st) ==
  [st EXCEPT !.selectedContent = Null, !.selectedImage = Null]

\* clearSelection, lines 611-621
clearSelection(st) ==
  [st EXCEPT !.selectedContent = Null, !.lastSelection = Null, !.selectedImage = Null]

\* handleMessage, case GET_SELECTED_CONTENT, lines 415-420
getSelectedContentResponse(st) ==
  [kind |-> "content", success |-> TRUE, content |-> st.selectedContent]

\* extractSelectedText, lines 473-501
extractSelectedText(s, t, url) ==
  LET selectedText == Trim(SelectionToString(s)) IN
  IF SelectionToString(s).len = 0 THEN Null
  ELSE IF selectedText.len = 0 \/ selectedText.len < MIN_TEXT_LENGTH THEN Null
  ELSE [text |-> Substring(selectedText, 0, MAX_TEXT_LENGTH), url |-> url, timestamp |-> t]

\* initializeSelectionState, lines 165-171, on a freshly loaded script
initializeSelectionState(s, url) ==
  LET fresh == [selectedContent |-> Null, lastSelection |-> Null,
                selectedImage |-> Null, nextOid |-> 1, notified |-> <<>>] IN
  IF Trim(SelectionToString(s)).len > 0
  THEN handleSelectionChange(fresh, s, 0, url)
  ELSE fresh

\* A text as the sequence of its characters; String.prototype.indexOf: the index, from
\* 0, of the first occurrence of pattern in text, or -1
IndexOf(text, pattern) ==
  LET found == {i \in 0..(Len(text) - Len(pattern)) :
                  SubSeq(text, i + 1, i + Len(pattern)) = pattern} IN
  IF found = {} THEN -1 ELSE CHOOSE i \in found : \A k \in found : i <= k

\* String.prototype.substring(from, to) of a sequence of characters, 0 <= from <= to
SeqSubstring(text, from, to) == SubSeq(text, Min(from, Len(text)) + 1, Min(to, Len(text)))

\* String.prototype.trim of a sequence of characters
RECURSIVE TrimSeq(_)
TrimSeq(text) ==
  IF text = <<>> THEN text
  ELSE IF Head(text) = " " THEN TrimSeq(Tail(text))
  ELSE IF text[Len(text)] = " " THEN TrimSeq(SubSeq(text, 1, Len(text) - 1))
  ELSE text

\* extractContext, lines 260-289: the range of the selection is not among its
\* parameters (fullContext is not modelled)
extractContext(containerText, selectedText) ==
  LET startIndex == IndexOf(containerText, selectedText) IN
  IF startIndex = -1
  THEN [kind |-> "context", contextBefore |-> <<>>, contextAfter |-> <<>>]
  ELSE [kind |-> "context",
        contextBefore |-> TrimSeq(SeqSubstring(containerText,
                                               IF startIndex - CONTEXT_LENGTH > 0
                                               THEN startIndex - CONTEXT_LENGTH ELSE 0,
                                               startIndex)),
        contextAfter |-> TrimSeq(SeqSubstring(
                                   containerText, startIndex + Len(selectedText),
                                   startIndex + Len(selectedText) + CONTEXT_LENGTH))]

\* What document.querySelector(imageSelector) can find: an element, or nothing
SelectorTargets == Images \cup {Null}

\* The data of an EXTRACT_IMAGE message: no selector, or a selector and what it finds
ImageRequests == {Null} \cup {[type |-> "selector", element |-> e] : e \in SelectorTargets}

\* extractSelectedImage, lines 548-566, with the check extractImageData makes first
\* (lines 508-510): an element that is not a valid image gives null
extractSelectedImage(st, data, t) ==
  LET imageElement == IF data # Null THEN data.element
                      ELSE IF st.selectedImage # Null THEN st.selectedImage.element
                      ELSE Null IN
  IF imageElement # Null /\ isValidImage(imageElement)
  THEN extractImageData(imageElement, t)
  ELSE Null

\* The message types handleMessage has no case for
UnhandledByTracker == {"CONTENT_SELECTED", "CHECK_MODEL_STATUS"}

\* Variant: a message of an unknown type clears the selection
unknownMessageClears(st) == clearSelection(st)

\* handleMessage, the default case (lines 453-458): what it leaves in the tracker
unknownMessage(st) == st

\* handleMessage, the default case (lines 453-458): what it answers
unknownMessageResponse ==
  [kind |-> "error", success |-> FALSE, error |-> "Unknown message type"]

SetTracker(st) ==
  /\ selectedContent' = st.selectedContent
  /\ lastSelection' = st.lastSelection
  /\ selectedImage' = st.selectedImage
  /\ nextOid' = st.nextOid
  /\ notified' = st.notified

\* A handler that may have called notifySelectionChange leaves st; the send it made, if
\* any, is delivered or fails
SetTrackerAfterSend(st) ==
  \E outcome \in IF st.notified # notified THEN SendOutcomes ELSE {"none"} :
    /\ SetTracker(IF outcome \in {"threw", "rejected"}
                  THEN sendFailed(st, st.selectedContent)
                  ELSE st)
    /\ delivery' = outcome

-----------------------------------------------------------------------------
(* The background service worker (src/popup.js, lines 466-832): values and helpers *)

\* The keys of chrome.storage.local the worker sets up (lines 636-639)
StorageKeys == {"userSettings", "savedContent"}

\* const defaultSettings, lines 624-630
defaultSettings ==
  [preferredLanguage |-> "en", ttsVoice |-> "default", summaryLength |-> "short",
   autoSave |-> FALSE, firstRun |-> TRUE]

\* The empty object, {} (line 638)
EmptyObject == <<>>

\* The values a key is given: a settings object, an empty object, null
StorageValues == {defaultSettings, EmptyObject, Null}

\* The data of a SET_STORAGE message: an object giving values to some keys
StorageData == UNION {[K -> StorageValues] : K \in SUBSET StorageKeys}

\* let modelStatus, lines 472-476
InitialModelStatus == [available |-> FALSE, downloading |-> FALSE, error |-> "(null)"]

\* initializeModelStatus, lines 598-617
initializeModelStatus ==
  [available |-> FALSE, downloading |-> FALSE,
   error |-> "Model status checking will be implemented in task 4"]

\* chrome.storage.local.get(keys), keys an array: the keys that are present, with values
storageGet(store, keys) == [k \in keys \cap DOMAIN store |-> store[k]]

\* chrome.storage.local.set(data): the keys of data are written, the others are kept
storageSet(store, data) == data @@ store

\* The error answer of the catch clauses (lines 726-731, 744-749, 766-771)
ErrorResponse(message) == [kind |-> "error", success |-> FALSE, error |-> message]

\* handleGetStorage, lines 718-732; ok: the promise of the store is fulfilled
handleGetStorage(store, keys, ok) ==
  IF ok THEN [kind |-> "data", success |-> TRUE, data |-> storageGet(store, keys)]
  ELSE ErrorResponse("storage error")

\* Variant: success is answered whether or not the store took the write
setStorageResponseAlwaysOk(ok) == [kind |-> "ack", success |-> TRUE]

\* handleSetStorage, lines 737-750: what it answers
setStorageResponse(ok) ==
  IF ok THEN [kind |-> "ack", success |-> TRUE] ELSE ErrorResponse("storage error")

\* handleProcessContent, lines 755-772
handleProcessContent ==
  ErrorResponse("Content processing will be implemented in future tasks")

\* The message types the listener names besides the two storage types, and two it does not
OtherMessageTypes ==
  {"CONTENT_SELECTED", "CHECK_MODEL_STATUS", "PROCESS_CONTENT", "GET_SELECTED_CONTENT",
   "PING"}

\* The chrome.runtime.onMessage listener, lines 557-593, on a message that is not a
\* storage message: what it passes to sendResponse
onMessage(type, status) ==
  CASE type = "CONTENT_SELECTED" -> NoResponse
    [] type = "CHECK_MODEL_STATUS" -> [kind |-> "status", success |-> TRUE, status |-> status]
    [] type = "PROCESS_CONTENT" -> handleProcessContent
    [] OTHER -> ErrorResponse("Unknown message type")

\* The worker's script has been evaluated, on a profile whose store is empty
CoordinatorLoaded ==
  /\ storage = EmptyObject
  /\ initStorage = "idle"
  /\ modelStatus = InitialModelStatus
  /\ lastWritten = EmptyObject

-----------------------------------------------------------------------------
(* The popup (src/unnamed/part_001): values and helpers *)

\* The four action buttons (lines 43-46)
Buttons == {"summarize", "simplify", "describe", "translate"}

\* The other controls whose handlers only report that the feature is missing
OtherControls == {"playAudio", "settings", "help"}

\* window.ai: absent, or what the two availability() calls of lines 134-137 answer
AiStates == {"absent", "readily", "after-download", "no"}

\* The active tab: none, a browser page (no content script can run there), a page whose
\* content script does not answer, a page whose content script answers
TabStates == {"none", "internal", "unanswered", "ready"}

\* The calls initializeInterface waits on, in order: lines 134, 137, 167, 179, 187, 191
Awaits ==
  {"awaitLanguageModel", "awaitSummarizer", "awaitBackground", "awaitTabsQuery",
   "awaitPing", "awaitContent"}

\* No call of initializeInterface is under way
NoInits == [pc \in Awaits |-> 0]

\* The number of calls of initializeInterface under way
Running(calls) ==
  calls["awaitLanguageModel"] + calls["awaitSummarizer"] + calls["awaitBackground"]
    + calls["awaitTabsQuery"] + calls["awaitPing"] + calls["awaitContent"]

\* The length of the preview of a selected text (line 232)
PREVIEW_LENGTH == 200

AiUnavailableMessage ==
  "Chrome Built-in AI is not available. Please ensure you have Chrome 138+ with AI features enabled."

InternalPageMessage ==
  "AURA cannot run on Chrome internal pages. Please try on a regular webpage."

\* The message each placeholder handler shows (lines 458-506)
PlaceholderMessage(control) ==
  CASE control = "summarize" -> "Summarization feature will be implemented in the next task."
    [] control = "simplify" -> "Text simplification feature will be implemented in a future task."
    [] control = "describe" -> "Image description feature will be implemented in a future task."
    [] control = "translate" -> "Translation feature will be implemented in a future task."
    [] control = "playAudio" -> "Audio playback feature will be implemented in a future task."
    [] control = "save" -> "Save feature will be implemented in a future task."
    [] control = "settings" -> "Settings feature will be implemented in a future task."
    [] control = "help" -> "Help feature will be implemented in a future task."

\* The popup's variables and the parts of its document the script writes, as one value
Popup ==
  [currentContent |-> currentContent, currentResults |-> currentResults,
   isProcessing |-> isProcessing, statusText |-> statusText,
   contentDisplay |-> contentDisplay, disabled |-> disabled,
   errorHidden |-> errorHidden, errorMessage |-> errorMessage,
   loadingHidden |-> loadingHidden, resultsHidden |-> resultsHidden]

SetPopup(ui) ==
  /\ currentContent' = ui.currentContent
  /\ currentResults' = ui.currentResults
  /\ isProcessing' = ui.isProcessing
  /\ statusText' = ui.statusText
  /\ contentDisplay' = ui.contentDisplay
  /\ disabled' = ui.disabled
  /\ errorHidden' = ui.errorHidden
  /\ errorMessage' = ui.errorMessage
  /\ loadingHidden' = ui.loadingHidden
  /\ resultsHidden' = ui.resultsHidden

\* The popup's document as delivered: the script's variables as declared (lines 10-12);
\* which sections carry class hidden and whether the action buttons are disabled is set
\* by the markup
PopupDocument(buttonsDisabled, errorIsHidden, loadingIsHidden, resultsAreHidden) ==
  [currentContent |-> Null, currentResults |-> Null, isProcessing |-> FALSE,
   statusText |-> "", contentDisplay |-> [kind |-> "markup"],
   disabled |-> [b \in Buttons |-> buttonsDisabled],
   errorHidden |-> errorIsHidden, errorMessage |-> "",
   loadingHidden |-> loadingIsHidden, resultsHidden |-> resultsAreHidden]

\* displaySelectedContent, lines 228-278: the src of the preview <img> (lines 229, 261)
previewImageSrc(content) == content.url

\* displaySelectedContent, lines 228-278 (the word count is not modelled)
displaySelectedContent(ui, content) ==
  IF content.type = "text"
  THEN [ui EXCEPT !.contentDisplay =
          [kind |-> "text",
           preview |-> IF content.text.len > PREVIEW_LENGTH
                       THEN Substring(content.text, 0, PREVIEW_LENGTH)
                       ELSE content.text,
           ellipsis |-> content.text.len > PREVIEW_LENGTH]]
  ELSE IF content.type = "image"
  THEN [ui EXCEPT !.contentDisplay =
          [kind |-> "image", src |-> previewImageSrc(content),
           width |-> content.width, height |-> content.height]]
  ELSE ui

\* displayNoContent, lines 283-287
displayNoContent(ui) == [ui EXCEPT !.contentDisplay = [kind |-> "none"]]

\* disableActionButtons, lines 309-314
disableActionButtons(ui) == [ui EXCEPT !.disabled = [b \in Buttons |-> TRUE]]

\* Variant: Describe is offered for a text as well
enableActionButtonsDescribeText(ui, contentType) ==
  [ui EXCEPT !.disabled =
     [b \in Buttons |->
        ~((contentType = "text" /\ b \in Buttons)
          \/ (contentType = "image" /\ b \in {"describe", "translate"}))]]

\* enableActionButtons, lines 292-304
enableActionButtons(ui, contentType) ==
  [ui EXCEPT !.disabled =
     [b \in Buttons |->
        ~((contentType = "text" /\ b \in {"summarize", "simplify", "translate"})
          \/ (contentType = "image" /\ b \in {"describe", "translate"}))]]

\* updateUIState, lines 319-330
updateUIState(ui) ==
  [ui EXCEPT !.resultsHidden = IF ui.currentResults = Null THEN TRUE ELSE @,
             !.loadingHidden = TRUE,
             !.errorHidden = TRUE]

\* showLoading, lines 335-343 (the loading text is not modelled)
showLoading(ui) ==
  disableActionButtons([ui EXCEPT !.isProcessing = TRUE,
                                  !.loadingHidden = FALSE,
                                  !.errorHidden = TRUE])

\* hideLoading, lines 348-356
hideLoading(ui) ==
  LET idle == [ui EXCEPT !.isProcessing = FALSE, !.loadingHidden = TRUE] IN
  IF idle.currentContent # Null
  THEN enableActionButtons(idle, idle.currentContent.type)
  ELSE idle

\* Variant: the error is shown with the popup left in its loading state
showErrorStillLoading(ui, message) ==
  showLoading([ui EXCEPT !.errorMessage = message])

\* showError, lines 361-365
showError(ui, message) ==
  hideLoading([ui EXCEPT !.errorMessage = message, !.errorHidden = FALSE])

\* hideError, lines 370-372
hideError(ui) == [ui EXCEPT !.errorHidden = TRUE]

\* The calls of external capabilities a placeholder handler makes (lines 458-490): none
capabilitiesInvoked(control) == <<>>

\* handleSummarize .. handleHelp, lines 458-506, but for handleStopAudio and handleRetry
handlePlaceholder(ui, control) == showError(ui, PlaceholderMessage(control))

\* checkModelAvailability, the catch clause of lines 151-158
modelUnavailable(ui) ==
  showError([ui EXCEPT !.statusText = "AI model unavailable"], AiUnavailableMessage)

\* What an availability() call of lines 134-137 gives: a value, undefined when the API
\* is missing from window.ai (the ?. of those lines), or no value when the call fails
Availabilities == {"readily", "after-download", "no", "undefined", "throws"}

\* window.ai: undefined, or an object with the two APIs
AiObjects ==
  {Null} \cup [type : {"ai"}, languageModel : Availabilities, summarizer : Availabilities]

\* Variant: one model that is ready is enough to report ready
reportAvailabilityEitherReady(ui, languageModelAvailability, summarizerAvailability) ==
  IF languageModelAvailability = "readily" \/ summarizerAvailability = "readily"
  THEN [ui EXCEPT !.statusText = "AI model ready"]
  ELSE IF languageModelAvailability = "after-download"
            \/ summarizerAvailability = "after-download"
  THEN [ui EXCEPT !.statusText = "AI model needs download"]
  ELSE modelUnavailable(ui)

\* checkModelAvailability, lines 140-158: the status shown for the two answers
reportAvailability(ui, languageModelAvailability, summarizerAvailability) ==
  IF languageModelAvailability = "readily" /\ summarizerAvailability = "readily"
  THEN [ui EXCEPT !.statusText = "AI model ready"]
  ELSE IF languageModelAvailability = "after-download"
            \/ summarizerAvailability = "after-download"
  THEN [ui EXCEPT !.statusText = "AI model needs download"]
  ELSE modelUnavailable(ui)

\* checkModelAvailability, lines 123-159, from its call to its return
checkModelAvailability(ui, ai) ==
  LET checking == [ui EXCEPT !.statusText = "Checking AI model..."] IN
  IF ai = Null THEN modelUnavailable(checking)
  ELSE IF ai.languageModel = "throws" \/ ai.summarizer = "throws"
  THEN modelUnavailable(checking)
  ELSE reportAvailability(checking, ai.languageModel, ai.summarizer)

\* The end of initializeInterface: updateUIState, line 112
finishInitializeInterface(ui) == [ui |-> updateUIState(ui), pc |-> "done"]

\* initializeInterface (lines 103-118) from its call to the first answer it waits for:
\* checkModelAvailability up to line 134, or through its catch clause up to line 167
startInitializeInterface(ui, ai) ==
  LET checking == [ui EXCEPT !.statusText = "Checking AI model..."] IN
  IF ai = "absent"
  THEN [ui |-> modelUnavailable(checking), pc |-> "awaitBackground"]
  ELSE [ui |-> checking, pc |-> "awaitLanguageModel"]

\* checkSelectedContent, lines 195-203: the content script has answered the query
contentAnswered(ui, answer) ==
  IF answer.success /\ answer.content # Null
  THEN enableActionButtons(
         displaySelectedContent([ui EXCEPT !.currentContent = answer.content],
                                answer.content),
         answer.content.type)
  ELSE disableActionButtons(displayNoContent(ui))

\* initializeInterface resumed at the await it is suspended at, up to the next one or to
\* its end: pc names the call awaited (lines 134, 137, 167, 179, 187, 191)
resumeInitializeInterface(ui, pc, env, backgroundAnswer, contentAnswer) ==
  CASE pc = "awaitLanguageModel" -> [ui |-> ui, pc |-> "awaitSummarizer"]
    [] pc = "awaitSummarizer" ->
         [ui |-> reportAvailability(ui, env.ai, env.ai), pc |-> "awaitBackground"]
    [] pc = "awaitBackground" ->
         IF backgroundAnswer.success /\ backgroundAnswer.content # Null
         THEN finishInitializeInterface(contentAnswered(ui, backgroundAnswer))
         ELSE [ui |-> ui, pc |-> "awaitTabsQuery"]
    [] pc = "awaitTabsQuery" ->
         IF env.tab = "none"
         THEN finishInitializeInterface(disableActionButtons(displayNoContent(ui)))
         ELSE [ui |-> ui, pc |-> "awaitPing"]
    [] pc = "awaitPing" ->
         IF env.tab = "ready"
         THEN [ui |-> ui, pc |-> "awaitContent"]
         ELSE LET none == disableActionButtons(displayNoContent(ui)) IN
              finishInitializeInterface(IF env.tab = "internal"
                                        THEN showError(none, InternalPageMessage)
                                        ELSE none)
    [] pc = "awaitContent" -> finishInitializeInterface(contentAnswered(ui, contentAnswer))

\* handleRetry, lines 492-496: what it calls once the error is hidden
retryRequest == "initializeInterface"

\* The popup has not been opened
PopupClosed ==
  /\ browser = [ai |-> "absent", tab |-> "none"]
  /\ loaded = FALSE
  /\ inits = NoInits
  /\ \E ui \in {PopupDocument(TRUE, TRUE, TRUE, TRUE)} :
       /\ currentContent = ui.currentContent
       /\ currentResults = ui.currentResults
       /\ isProcessing = ui.isProcessing
       /\ statusText = ui.statusText
       /\ contentDisplay = ui.contentDisplay
       /\ disabled = ui.disabled
       /\ errorHidden = ui.errorHidden
       /\ errorMessage = ui.errorMessage
       /\ loadingHidden = ui.loadingHidden
       /\ resultsHidden = ui.resultsHidden

-----------------------------------------------------------------------------
(* The state after the script has been loaded: initializeContentScript, lines 24-48 *)

Init ==
  /\ now = 0
  /\ nextTick = CLEANUP_INTERVAL
  /\ initPending = TRUE
  /\ sel \in {NoBrowserSelection, [lead |-> 0, body |-> 3]}
  /\ href = "page1"
  /\ currentUrl = href
  /\ LET st == initializeSelectionState(sel, href) IN
       /\ selectedContent = st.selectedContent
       /\ lastSelection = st.lastSelection
       /\ selectedImage = st.selectedImage
       /\ nextOid = st.nextOid
       /\ notified = st.notified
       /\ delivery \in IF st.notified # <<>> THEN SendOutcomes ELSE {"none"}
  /\ response = NoResponse
  /\ lastOp = [name |-> "load"]
  /\ cleared = NoClear
  /\ CoordinatorLoaded
  /\ PopupClosed

-----------------------------------------------------------------------------
(* The environment *)

\* Time passes, up to the next timer deadline.
Advance ==
  /\ \E t \in Instants :
       /\ t > now
       /\ t <= nextTick
       /\ initPending => t <= INITIAL_CHECK_DELAY
       /\ now' = t
  /\ UNCHANGED <<nextTick, initPending, sel, href, currentUrl, selectedContent,
                 lastSelection, selectedImage, nextOid, notified, delivery, response,
                 lastOp, cleared>>
  /\ UNCHANGED <<coordinatorVars, popupVars>>

\* history.pushState and the like: the address changes, nothing is notified.
UrlChange ==
  /\ now \in EventInstants
  /\ \E p \in Pages : p # href /\ href' = p
  /\ lastOp' = [name |-> "other"]
  /\ response' = NoResponse
  /\ delivery' = "none"
  /\ UNCHANGED <<now, nextTick, initPending, sel, currentUrl, selectedContent,
                 lastSelection, selectedImage, nextOid, notified, cleared>>
  /\ UNCHANGED <<coordinatorVars, popupVars>>

-----------------------------------------------------------------------------
(* The handlers *)

\* The tracker's state, in the words of the design: Idle, Active, or Grace once the
\* browser selection that made the held text Selection is gone
TrackerState ==
  IF selectedContent = Null THEN "Idle"
  ELSE IF selectedContent.type = "text" /\ ~Qualifies(Trim(SelectionToString(sel)))
  THEN "Grace"
  ELSE "Active"

\* The Selection held when the browser selection is emptied, and the time of emptying
ClearedAfterSelectionChange(s) ==
  IF Qualifies(Trim(SelectionToString(s))) THEN NoClear
  ELSE IF /\ SelectionToString(s).len = 0
          /\ Qualifies(Trim(SelectionToString(sel)))
          /\ selectedContent.type = "text"
  THEN [at |-> now, oid |-> selectedContent.oid]
  ELSE cleared

\* A selectionchange event: the browser selection becomes s, handleSelectionChange runs
SelectionChange(s) ==
  /\ now \in EventInstants
  /\ s # sel
  /\ Qualifies(Trim(SelectionToString(s))) => nextOid <= MaxObjects
  /\ sel' = s
  /\ SetTrackerAfterSend(handleSelectionChange(Tracker, s, now, href))
  /\ cleared' = ClearedAfterSelectionChange(s)
  /\ lastOp' = [name |-> "handleSelectionChange"]
  /\ response' = NoResponse
  /\ UNCHANGED <<now, nextTick, initPending, href, currentUrl>>
  /\ UNCHANGED <<coordinatorVars, popupVars>>

\* The setTimeout callback of lines 147-149
InitialCheck ==
  /\ initPending
  /\ now = INITIAL_CHECK_DELAY
  /\ Qualifies(Trim(SelectionToString(sel))) => nextOid <= MaxObjects
  /\ initPending' = FALSE
  /\ SetTrackerAfterSend(handleSelectionChange(Tracker, sel, now, href))
  /\ cleared' = IF Qualifies(Trim(SelectionToString(sel))) THEN NoClear ELSE cleared
  /\ lastOp' = [name |-> "handleSelectionChange"]
  /\ response' = NoResponse
  /\ UNCHANGED <<now, nextTick, sel, href, currentUrl>>
  /\ UNCHANGED <<coordinatorVars, popupVars>>

\* The setInterval callback of lines 152-159
Tick ==
  /\ now = nextTick
  /\ nextTick' = nextTick + CLEANUP_INTERVAL
  /\ SetTracker(cleanupOldSelections(Tracker, now))
  /\ delivery' = "none"
  /\ lastOp' = [name |-> "other"]
  /\ response' = NoResponse
  /\ UNCHANGED <<now, initPending, sel, href, currentUrl, cleared>>
  /\ UNCHANGED <<coordinatorVars, popupVars>>

\* handleImageClick, lines 340-351 (the timestamp it stores is never read)
HandleImageClick(target) ==
  /\ now \in EventInstants
  /\ selectedImage' = IF target.tagName = "IMG" /\ isValidImage(target)
                      THEN [element |-> target]
                      ELSE selectedImage
  /\ lastOp' = [name |-> "other"]
  /\ response' = NoResponse
  /\ delivery' = "none"
  /\ UNCHANGED <<now, nextTick, initPending, sel, href, currentUrl, selectedContent,
                 lastSelection, nextOid, notified, cleared>>
  /\ UNCHANGED <<coordinatorVars, popupVars>>

\* handleContextMenu, lines 356-373
handleContextMenu(st, target, t, url) ==
  IF target.tagName = "IMG" /\ isValidImage(target)
  THEN LET content == ImageSelection(extractImageData(target, t), t, url, st.nextOid) IN
       [st EXCEPT !.selectedContent = content,
                  !.nextOid = st.nextOid + 1,
                  !.notified = notifySelectionChange(st.notified, content)]
  ELSE st

HandleContextMenu(target) ==
  /\ now \in EventInstants
  /\ isValidImage(target) => nextOid <= MaxObjects
  /\ SetTrackerAfterSend(handleContextMenu(Tracker, target, now, href))
  /\ cleared' = IF isValidImage(target) THEN NoClear ELSE cleared
  /\ lastOp' = [name |-> "handleContextMenu", target |-> target]
  /\ response' = NoResponse
  /\ UNCHANGED <<now, nextTick, initPending, sel, href, currentUrl>>
  /\ UNCHANGED <<coordinatorVars, popupVars>>

\* Variant: whatever is held is dropped when the page is hidden
handleVisibilityChangeDropsAny(st, hidden) ==
  IF hidden /\ st.selectedContent # Null
  THEN [st EXCEPT !.selectedContent = Null]
  ELSE st

\* handleVisibilityChange, lines 398-405
handleVisibilityChange(st, hidden) ==
  IF hidden /\ st.selectedContent # Null /\ st.selectedContent.type = "image"
  THEN [st EXCEPT !.selectedContent = Null]
  ELSE st

HandleVisibilityChange(hidden) ==
  /\ now \in EventInstants
  /\ SetTracker(handleVisibilityChange(Tracker, hidden))
  /\ delivery' = "none"
  /\ lastOp' = [name |-> "other"]
  /\ response' = NoResponse
  /\ UNCHANGED <<now, nextTick, initPending, sel, href, currentUrl, cleared>>
  /\ UNCHANGED <<coordinatorVars, popupVars>>

\* Variant: the query consumes the Selection it reports
getSelectedContentConsuming(st) == [st EXCEPT !.selectedContent = Null]

\* handleMessage, case GET_SELECTED_CONTENT: what it leaves in the tracker
getSelectedContentEffect(st) == st

\* handleMessage({type: 'GET_SELECTED_CONTENT'}), lines 415-420
GetSelectedContent ==
  /\ now \in EventInstants
  /\ response' = getSelectedContentResponse(Tracker)
  /\ SetTracker(getSelectedContentEffect(Tracker))
  /\ delivery' = "none"
  /\ lastOp' = [name |-> "handleMessage", type |-> "GET_SELECTED_CONTENT"]
  /\ UNCHANGED <<now, nextTick, initPending, sel, href, currentUrl, cleared>>
  /\ UNCHANGED <<coordinatorVars, popupVars>>

\* handleMessage({type: 'EXTRACT_TEXT'}), lines 422-428
ExtractText ==
  /\ now \in EventInstants
  /\ response' = [kind |-> "text", success |-> TRUE,
                  text |-> extractSelectedText(sel, now, href)]
  /\ delivery' = "none"
  /\ lastOp' = [name |-> "handleMessage", type |-> "EXTRACT_TEXT"]
  /\ UNCHANGED <<now, nextTick, initPending, sel, href, currentUrl, selectedContent,
                 lastSelection, selectedImage, nextOid, notified, cleared>>
  /\ UNCHANGED <<coordinatorVars, popupVars>>

\* handleMessage({type: 'CLEAR_SELECTION'}), lines 443-446
ClearSelectionMessage ==
  /\ now \in EventInstants
  /\ SetTracker(clearSelection(Tracker))
  /\ delivery' = "none"
  /\ sel' = NoBrowserSelection
  /\ response' = [kind |-> "ack", success |-> TRUE]
  /\ cleared' = NoClear
  /\ lastOp' = [name |-> "handleMessage", type |-> "CLEAR_SELECTION"]
  /\ UNCHANGED <<now, nextTick, initPending, href, currentUrl>>
  /\ UNCHANGED <<coordinatorVars, popupVars>>

\* The MutationObserver callback of lines 741-756, run on a change of the page
UrlObserver ==
  /\ now \in EventInstants
  /\ IF href # currentUrl
     THEN /\ currentUrl' = href
          /\ SetTracker(clearSelection(Tracker))
          /\ sel' = NoBrowserSelection
          /\ cleared' = NoClear
          /\ lastOp' = [name |-> "navigation", from |-> TrackerState]
     ELSE /\ lastOp' = [name |-> "other"]
          /\ UNCHANGED <<currentUrl, selectedContent, lastSelection, selectedImage,
                         nextOid, notified, sel, cleared>>
  /\ response' = NoResponse
  /\ delivery' = "none"
  /\ UNCHANGED <<now, nextTick, initPending, href>>
  /\ UNCHANGED <<coordinatorVars, popupVars>>

Next ==
  \/ Advance
  \/ UrlChange
  \/ \E s \in BrowserSelections : SelectionChange(s)
  \/ InitialCheck
  \/ Tick
  \/ \E target \in Images : HandleImageClick(target)
  \/ \E target \in Images : HandleContextMenu(target)
  \/ \E hidden \in BOOLEAN : HandleVisibilityChange(hidden)
  \/ GetSelectedContent
  \/ ExtractText
  \/ ClearSelectionMessage
  \/ UrlObserver

Spec == Init /\ [][Next]_vars

-----------------------------------------------------------------------------
(* The background service worker on its own: the page stays as it was when the content  *)
(* script had loaded and, at most, one image had been right-clicked                      *)

\* The content script as loaded on a page with browser selection s, then target
\* right-clicked (no target: none was)
TrackerLoaded(s, targets) ==
  LET st == initializeSelectionState(s, "page1") IN
  IF targets = {} THEN st
  ELSE handleContextMenu(st, CHOOSE target \in targets : TRUE, 0, "page1")

PageLoaded ==
  /\ now = 0
  /\ nextTick = CLEANUP_INTERVAL
  /\ initPending = TRUE
  /\ sel \in BrowserSelections
  /\ href = "page1"
  /\ currentUrl = href
  /\ \E targets \in {{}} \cup {{target} : target \in {i \in Images : isValidImage(i)}} :
       LET st == TrackerLoaded(sel, targets) IN
         /\ selectedContent = st.selectedContent
         /\ lastSelection = st.lastSelection
         /\ selectedImage = st.selectedImage
         /\ nextOid = st.nextOid
         /\ notified = st.notified
         /\ delivery = IF st.notified # <<>> THEN "delivered" ELSE "none"
  /\ cleared = NoClear

CoordinatorInit ==
  /\ PageLoaded
  /\ CoordinatorLoaded
  /\ PopupClosed
  /\ response = NoResponse
  /\ lastOp = [name |-> "load"]

\* The chrome.runtime.onInstalled listener, lines 480-491: initializeModelStatus runs to
\* its end, initializeStorage up to the answer of its chrome.storage.local.get (line 633)
OnInstalled ==
  /\ initStorage \in {"idle", "done"}
  /\ modelStatus' = initializeModelStatus
  /\ \E ok \in BOOLEAN :
       LET result == storageGet(storage, {"userSettings"}) IN
       initStorage' = IF ok /\ ~("userSettings" \in DOMAIN result
                                  /\ result.userSettings # Null)
                      THEN "set" ELSE "done"
  /\ response' = NoResponse
  /\ lastOp' = [name |-> "onInstalled"]
  /\ UNCHANGED <<storage, lastWritten>>
  /\ UNCHANGED <<trackerVars, popupVars>>

\* initializeStorage, lines 635-642: the defaults are written
InitializeStorageSet ==
  /\ initStorage = "set"
  /\ initStorage' = "done"
  /\ \E ok \in BOOLEAN :
       LET defaults == [userSettings |-> defaultSettings, savedContent |-> EmptyObject] IN
       /\ storage' = IF ok THEN storageSet(storage, defaults) ELSE storage
       /\ lastWritten' = IF ok THEN [k \in DOMAIN lastWritten \ DOMAIN defaults
                                       |-> lastWritten[k]]
                         ELSE lastWritten
  /\ response' = NoResponse
  /\ lastOp' = [name |-> "initializeStorage"]
  /\ UNCHANGED modelStatus
  /\ UNCHANGED <<trackerVars, popupVars>>

\* The chrome.tabs.onUpdated listener, lines 804-814, on a tab that has finished loading
TabUpdated ==
  /\ modelStatus' = IF ~modelStatus.available /\ ~modelStatus.downloading
                    THEN initializeModelStatus ELSE modelStatus
  /\ response' = NoResponse
  /\ lastOp' = [name |-> "tabUpdated"]
  /\ UNCHANGED <<storage, initStorage, lastWritten>>
  /\ UNCHANGED <<trackerVars, popupVars>>

\* The browser stops the idle worker and evaluates its script again on the next event
WorkerRestarted ==
  /\ initStorage \in {"idle", "done"}
  /\ modelStatus' = InitialModelStatus
  /\ response' = NoResponse
  /\ lastOp' = [name |-> "load"]
  /\ UNCHANGED <<storage, initStorage, lastWritten>>
  /\ UNCHANGED <<trackerVars, popupVars>>

\* The listener on a message that is not a storage message
OnMessage(type) ==
  /\ response' = onMessage(type, modelStatus)
  /\ lastOp' = [name |-> "onMessage", type |-> type]
  /\ UNCHANGED coordinatorVars
  /\ UNCHANGED <<trackerVars, popupVars>>

\* The listener on {type: 'GET_STORAGE', data: keys}
OnGetStorage(keys) ==
  /\ \E ok \in BOOLEAN : response' = handleGetStorage(storage, keys, ok)
  /\ lastOp' = [name |-> "onMessage", type |-> "GET_STORAGE", keys |-> keys]
  /\ UNCHANGED coordinatorVars
  /\ UNCHANGED <<trackerVars, popupVars>>

\* The listener on {type: 'SET_STORAGE', data: data}
OnSetStorage(data) ==
  /\ \E ok \in BOOLEAN :
       /\ storage' = IF ok THEN storageSet(storage, data) ELSE storage
       /\ response' = setStorageResponse(ok)
  /\ lastWritten' = IF response'.success THEN data @@ lastWritten ELSE lastWritten
  /\ lastOp' = [name |-> "onMessage", type |-> "SET_STORAGE"]
  /\ UNCHANGED <<initStorage, modelStatus>>
  /\ UNCHANGED <<trackerVars, popupVars>>

CoordinatorNext ==
  \/ OnInstalled
  \/ InitializeStorageSet
  \/ TabUpdated
  \/ WorkerRestarted
  \/ \E type \in OtherMessageTypes : OnMessage(type)
  \/ \E keys \in SUBSET StorageKeys : OnGetStorage(keys)
  \/ \E data \in StorageData : OnSetStorage(data)

CoordinatorSpec == CoordinatorInit /\ [][CoordinatorNext]_vars

-----------------------------------------------------------------------------
(* The two message listeners: the worker's chrome.runtime.onMessage listener and the   *)
(* content script's handleMessage, on a page that stays as it was once loaded but for  *)
(* clicks on its images                                                                *)

\* handleMessage({type: 'EXTRACT_IMAGE', data}), lines 430-436
ExtractImage(data) ==
  /\ now \in EventInstants
  /\ response' = [kind |-> "image", success |-> TRUE,
                  image |-> extractSelectedImage(Tracker, data, now)]
  /\ delivery' = "none"
  /\ lastOp' = [name |-> "handleMessage", type |-> "EXTRACT_IMAGE", data |-> data]
  /\ UNCHANGED <<now, nextTick, initPending, sel, href, currentUrl, selectedContent,
                 lastSelection, selectedImage, nextOid, notified, cleared>>
  /\ UNCHANGED <<coordinatorVars, popupVars>>

\* handleMessage({type: 'SHOW_OVERLAY'}), lines 438-441 (the notification it adds to the
\* page is not modelled)
ShowOverlay ==
  /\ now \in EventInstants
  /\ response' = [kind |-> "ack", success |-> TRUE]
  /\ delivery' = "none"
  /\ lastOp' = [name |-> "handleMessage", type |-> "SHOW_OVERLAY"]
  /\ UNCHANGED <<now, nextTick, initPending, sel, href, currentUrl, selectedContent,
                 lastSelection, selectedImage, nextOid, notified, cleared>>
  /\ UNCHANGED <<coordinatorVars, popupVars>>

\* handleMessage({type: 'PING'}), lines 448-450
Ping ==
  /\ now \in EventInstants
  /\ response' = [kind |-> "ready", success |-> TRUE]
  /\ delivery' = "none"
  /\ lastOp' = [name |-> "handleMessage", type |-> "PING"]
  /\ UNCHANGED <<now, nextTick, initPending, sel, href, currentUrl, selectedContent,
                 lastSelection, selectedImage, nextOid, notified, cleared>>
  /\ UNCHANGED <<coordinatorVars, popupVars>>

\* handleMessage on a message whose type it has no case for, lines 453-458
UnknownMessage(type) ==
  /\ now \in EventInstants
  /\ response' = unknownMessageResponse
  /\ SetTracker(unknownMessage(Tracker))
  /\ delivery' = "none"
  /\ lastOp' = [name |-> "handleMessage", type |-> type]
  /\ UNCHANGED <<now, nextTick, initPending, sel, href, currentUrl, cleared>>
  /\ UNCHANGED <<coordinatorVars, popupVars>>

MessagesNext ==
  \/ \E type \in OtherMessageTypes : OnMessage(type)
  \/ \E keys \in SUBSET StorageKeys : OnGetStorage(keys)
  \/ \E data \in StorageData : OnSetStorage(data)
  \/ \E target \in Images : HandleImageClick(target)
  \/ GetSelectedContent
  \/ ExtractText
  \/ \E data \in ImageRequests : ExtractImage(data)
  \/ ShowOverlay
  \/ ClearSelectionMessage
  \/ Ping
  \/ \E type \in UnhandledByTracker : UnknownMessage(type)

MessagesSpec == CoordinatorInit /\ [][MessagesNext]_vars

-----------------------------------------------------------------------------
(* The popup, opened on a page that stays as it was when the content script had loaded  *)
(* and, at most, one image had been right-clicked                                       *)

PopupInit ==
  /\ PageLoaded
  /\ sel = NoBrowserSelection \/ (selectedContent # Null /\ selectedContent.type = "text")
  /\ CoordinatorLoaded
  /\ browser \in [ai : AiStates, tab : TabStates]
  /\ loaded = FALSE
  /\ inits = NoInits
  /\ \E buttonsDisabled, errorIsHidden, loadingIsHidden, resultsAreHidden \in BOOLEAN :
       LET ui == PopupDocument(buttonsDisabled, errorIsHidden, loadingIsHidden,
                               resultsAreHidden) IN
       /\ currentContent = ui.currentContent
       /\ currentResults = ui.currentResults
       /\ isProcessing = ui.isProcessing
       /\ statusText = ui.statusText
       /\ contentDisplay = ui.contentDisplay
       /\ disabled = ui.disabled
       /\ errorHidden = ui.errorHidden
       /\ errorMessage = ui.errorMessage
       /\ loadingHidden = ui.loadingHidden
       /\ resultsHidden = ui.resultsHidden
  /\ response = NoResponse
  /\ lastOp = [name |-> "load"]

\* The DOMContentLoaded listener, lines 17-28, up to the first answer it waits for
DomContentLoaded ==
  /\ ~loaded
  /\ loaded' = TRUE
  /\ LET started == startInitializeInterface(Popup, browser.ai) IN
       /\ SetPopup(started.ui)
       /\ inits' = [inits EXCEPT ![started.pc] = @ + 1]
  /\ lastOp' = [name |-> "initializeInterface", finished |-> FALSE]
  /\ UNCHANGED <<browser, response>>
  /\ UNCHANGED <<trackerVars, coordinatorVars>>

\* The answer awaited by a call of initializeInterface suspended at pc arrives
ResumeInitializeInterface(pc) ==
  /\ inits[pc] > 0
  /\ LET resumed == resumeInitializeInterface(
                      Popup, pc, browser,
                      onMessage("GET_SELECTED_CONTENT", modelStatus),
                      getSelectedContentResponse(Tracker)) IN
       /\ SetPopup(resumed.ui)
       /\ inits' = IF resumed.pc = "done"
                   THEN [inits EXCEPT ![pc] = @ - 1]
                   ELSE [inits EXCEPT ![pc] = @ - 1, ![resumed.pc] = @ + 1]
       /\ lastOp' = [name |-> "initializeInterface", finished |-> resumed.pc = "done"]
  /\ UNCHANGED <<browser, loaded, response>>
  /\ UNCHANGED <<trackerVars, coordinatorVars>>

\* handleSummarize, handleSimplify, handleDescribe, handleTranslate (lines 458-476): a
\* click on an action button that is not disabled
HandleOperation(button) ==
  /\ loaded
  /\ ~disabled[button]
  /\ SetPopup(handlePlaceholder(Popup, button))
  /\ lastOp' = [name |-> "operation", control |-> button,
                invoked |-> capabilitiesInvoked(button)]
  /\ UNCHANGED <<browser, loaded, inits, response>>
  /\ UNCHANGED <<trackerVars, coordinatorVars>>

\* handleSave, lines 487-490
HandleSave ==
  /\ loaded
  /\ SetPopup(handlePlaceholder(Popup, "save"))
  /\ lastOp' = [name |-> "handleSave"]
  /\ UNCHANGED <<browser, loaded, inits, response>>
  /\ UNCHANGED <<trackerVars, coordinatorVars>>

\* handlePlayAudio, handleSettings, handleHelp (lines 478-481, 498-506)
HandleOtherControl(control) ==
  /\ loaded
  /\ SetPopup(handlePlaceholder(Popup, control))
  /\ lastOp' = [name |-> "other"]
  /\ UNCHANGED <<browser, loaded, inits, response>>
  /\ UNCHANGED <<trackerVars, coordinatorVars>>

\* handleRetry, lines 492-496, up to the first answer the new call waits for
HandleRetry ==
  /\ loaded
  /\ Running(inits) < MaxRuns
  /\ LET started == startInitializeInterface(hideError(Popup), browser.ai) IN
       /\ SetPopup(started.ui)
       /\ inits' = [inits EXCEPT ![started.pc] = @ + 1]
  /\ lastOp' = [name |-> "handleRetry", reissued |-> retryRequest]
  /\ UNCHANGED <<browser, loaded, response>>
  /\ UNCHANGED <<trackerVars, coordinatorVars>>

\* handleKeyboardShortcuts on Escape, lines 521-524
HandleEscape ==
  /\ loaded
  /\ SetPopup(hideError(Popup))
  /\ lastOp' = [name |-> "other"]
  /\ UNCHANGED <<browser, loaded, inits, response>>
  /\ UNCHANGED <<trackerVars, coordinatorVars>>

PopupNext ==
  \/ DomContentLoaded
  \/ \E pc \in Awaits : ResumeInitializeInterface(pc)
  \/ \E button \in Buttons : HandleOperation(button)
  \/ HandleSave
  \/ \E control \in OtherControls : HandleOtherControl(control)
  \/ HandleRetry
  \/ HandleEscape

PopupSpec == PopupInit /\ [][PopupNext]_vars

-----------------------------------------------------------------------------
(* The popup kept open on a page whose content script answers, while that page moves   *)
(* to another address on its own (history.pushState, lines 741-756 of the content      *)
(* script): the Selection the popup was told of is dropped behind its back             *)

PopupPageInit ==
  /\ PopupInit
  /\ browser.tab = "ready"

PopupPageNext ==
  \/ DomContentLoaded
  \/ \E pc \in Awaits : ResumeInitializeInterface(pc)
  \/ \E button \in Buttons : HandleOperation(button)
  \/ HandleSave
  \/ \E control \in OtherControls : HandleOtherControl(control)
  \/ HandleRetry
  \/ HandleEscape
  \/ UrlChange
  \/ UrlObserver

PopupPageSpec == PopupPageInit /\ [][PopupPageNext]_vars

-----------------------------------------------------------------------------
(* extractContext and checkModelAvailability, each applied on its own to inputs drawn  *)
(* from bounded sets                                                                   *)

\* n characters of running text
Filler(n) == [i \in 1..n |-> "x"]

\* The container text before and after the words the selection lies in: nothing, a
\* little less than CONTEXT_LENGTH characters and a space, more than CONTEXT_LENGTH
Pads ==
  {<<>>, Filler(CONTEXT_LENGTH - 1) \o <<" ">>, <<" ">> \o Filler(CONTEXT_LENGTH + 1)}

\* The words the selection lies in
Cores == UNION {[1..n -> {"a", "b"}] : n \in MIN_TEXT_LENGTH..MaxCore}

\* A selection whose string is not in the container text (it spans several elements)
ForeignText == <<"a", "\n", "b">>

\* The calls extractDetailedSelection (lines 226-255) makes of extractContext (line 236):
\* the text of the container, the selected text, and at, the index in the container
\* text at which the selected range starts (-1 when the selected text is not part of it)
ContextCalls ==
  {[name |-> "extractContext", applied |-> FALSE,
    containerText |-> c.left \o c.core \o c.right,
    selectedText |-> SubSeq(c.core, c.from + 1, c.from + c.len),
    at |-> Len(c.left) + c.from] :
     c \in {c \in [left : Pads, right : Pads, core : Cores,
                    from : 0..MaxCore, len : MIN_TEXT_LENGTH..MaxCore] :
              c.from + c.len <= Len(c.core)}}
  \cup
  {[name |-> "extractContext", applied |-> FALSE,
    containerText |-> c.left \o c.core \o c.right,
    selectedText |-> ForeignText,
    at |-> -1] : c \in [left : Pads, right : Pads, core : Cores]}

\* The calls of checkModelAvailability: window.ai is ai
AvailabilityCalls ==
  {[name |-> "checkModelAvailability", applied |-> FALSE, ai |-> ai] : ai \in AiObjects}

\* extractContext is applied to the inputs drawn
ExtractContext ==
  /\ lastOp.name = "extractContext"
  /\ ~lastOp.applied
  /\ response' = extractContext(lastOp.containerText, lastOp.selectedText)
  /\ lastOp' = [lastOp EXCEPT !.applied = TRUE]
  /\ UNCHANGED <<trackerVars, coordinatorVars, popupVars>>

\* checkModelAvailability is run in the popup as delivered
CheckModelAvailability ==
  /\ lastOp.name = "checkModelAvailability"
  /\ ~lastOp.applied
  /\ LET ui == checkModelAvailability(Popup, lastOp.ai) IN
       response' = [kind |-> "status", statusText |-> ui.statusText,
                    errorHidden |-> ui.errorHidden, errorMessage |-> ui.errorMessage]
  /\ lastOp' = [lastOp EXCEPT !.applied = TRUE]
  /\ UNCHANGED <<trackerVars, coordinatorVars, popupVars>>

FunctionsInit ==
  /\ PageLoaded
  /\ sel = NoBrowserSelection
  /\ selectedContent = Null
  /\ CoordinatorLoaded
  /\ PopupClosed
  /\ response = NoResponse
  /\ lastOp \in ContextCalls \cup AvailabilityCalls

FunctionsNext ==
  \/ ExtractContext
  \/ CheckModelAvailability

FunctionsSpec == FunctionsInit /\ [][FunctionsNext]_vars

-----------------------------------------------------------------------------
(* Vocabulary of the properties *)

\* The step just taken ran the named handler (the clock does not move while one runs).
Ran(name) == now' = now /\ lastOp'.name = name

RanMessage(type) == Ran("handleMessage") /\ lastOp'.type = type

SelectedText == Trim(SelectionToString(sel))

HeldText(content) == content # Null /\ content.type = "text"

HeldImage(content) == content # Null /\ content.type = "image"

\* The action buttons that apply to a selection of the given type
Applies(button, contentType) ==
  \/ contentType = "text" /\ button \in {"summarize", "simplify", "translate"}
  \/ contentType = "image" /\ button \in {"describe", "translate"}

\* The request whose failure a displayed error message reports
RequestBehind(message) ==
  IF message \in {AiUnavailableMessage, InternalPageMessage}
  THEN "initializeInterface"
  ELSE CHOOSE control \in Buttons \cup OtherControls \cup {"save"} :
         message = PlaceholderMessage(control)

\* The popup shows what the content script answered to the selection query: the content
\* displayed, currentContent and the buttons enabled are those of the answer
ReflectsAnswer(answer) ==
  IF answer.success /\ answer.content # Null
  THEN /\ currentContent = answer.content
       /\ contentDisplay.kind = answer.content.type
       /\ \A b \in Buttons : disabled[b] = ~Applies(b, answer.content.type)
  ELSE /\ currentContent = Null
       /\ contentDisplay.kind = "none"
       /\ \A b \in Buttons : disabled[b]

\* The kinds of content enableActionButtons can be called with: the two the content
\* script makes, and others
ContentKinds == {"text", "image", "video", "null"}

\* The message types the worker's listener has no case for
UnhandledByCoordinator == {"GET_SELECTED_CONTENT", "PING"}

\* The answer is the failure answer {success: false, error: 'Unknown message type'}
UnknownTypeAnswer(answer) ==
  /\ DOMAIN answer = {"kind", "success", "error"}
  /\ ~answer.success
  /\ answer.error = "Unknown message type"

\* The store holds a saved item made of the given Selection
SavedItemOf(content) ==
  \E key \in DOMAIN storage :
    \E id \in DOMAIN storage[key] : storage[key][id].selection = content

-----------------------------------------------------------------------------
(* Properties *)

\* C1: from the moment a held text Selection's browser selection is emptied, and for
\* SELECTION_TIMEOUT milliseconds after it, that Selection stays the current one
\* (unless a newer selection, a navigation or an explicit clear has ended the grace).
C1_GraceLastsFullTimeoutFromClearing ==
  (cleared # NoClear /\ now < cleared.at + SELECTION_TIMEOUT)
    => (selectedContent # Null /\ selectedContent.oid = cleared.oid)

\* C2: a GET_SELECTED_CONTENT query handled SELECTION_TIMEOUT milliseconds or more after
\* the browser selection of a text Selection was emptied does not return that Selection.
C2_NoAnswerAfterGraceExpired ==
  [][(RanMessage("GET_SELECTED_CONTENT") /\ cleared # NoClear
        /\ now >= cleared.at + SELECTION_TIMEOUT)
       => (response'.content = Null \/ response'.content.oid # cleared.oid)]_vars

\* C3: while the browser selection that produced the held text Selection stays in place,
\* no step other than the making of a newer Selection takes the held Selection away.
C3_ActiveHeldWhileSelectionInPlace ==
  [][(HeldText(selectedContent) /\ Qualifies(SelectedText) /\ sel' = sel
        /\ nextOid' = nextOid)
       => selectedContent' = selectedContent]_vars

\* C4: the Selection returned as current is never one that a later-made Selection has
\* replaced: it is the most recently made Selection.
C4_SupersededSelectionNeverCurrent ==
  selectedContent # Null => selectedContent.oid = nextOid - 1

\* C5: a selectionchange whose trimmed text is shorter than MIN_TEXT_LENGTH makes no
\* Selection: no Selection object is allocated, no notification is sent, what is held
\* afterwards is what was held or cached before (or nothing) and is not that text; and
\* extractSelectedText answers none for such a selection.
C5_ShortTextMakesNoSelection ==
  [][/\ (Ran("handleSelectionChange") /\ SelectedText'.len < 3)
          => /\ nextOid' = nextOid
             /\ notified' = notified
             /\ selectedContent' \in {selectedContent, lastSelection, Null}
             /\ HeldText(selectedContent') => selectedContent'.text.of # sel'
     /\ (RanMessage("EXTRACT_TEXT") /\ SelectedText.len < 3)
          => response'.text = Null]_vars

C5_Witness ==
  /\ lastOp.name = "handleSelectionChange"
  /\ SelectedText.len < 3
  /\ SelectionToString(sel).len >= 3
  /\ HeldText(selectedContent)

\* C6: a right-click on an image narrower or lower than 50 pixels, without a source or
\* not visible leaves the current selection, the grace cache and the remembered image as
\* they were and sends nothing; a visible 50 by 50 image with a source becomes the
\* current selection.
C6_InvalidImageTracksNothing ==
  [][Ran("handleContextMenu") =>
       LET img == lastOp'.target IN
       /\ (img.naturalWidth < 50 \/ img.naturalHeight < 50 \/ img.src = "" \/ ~img.visible)
            => UNCHANGED <<selectedContent, lastSelection, selectedImage, notified, nextOid>>
       /\ (img.naturalWidth = 50 /\ img.naturalHeight = 50 /\ img.src # "" /\ img.visible)
            => /\ HeldImage(selectedContent')
               /\ selectedContent'.oid = nextOid
               /\ selectedContent'.width = 50 /\ selectedContent'.height = 50
               /\ Len(notified') = Len(notified) + 1]_vars

C6_Witness ==
  /\ lastOp.name = "handleContextMenu"
  /\ lastOp.target.naturalWidth = 49
  /\ HeldText(selectedContent)
  /\ selectedImage # Null

\* C7: a held text Selection (current or cached) has between MIN_TEXT_LENGTH and
\* MAX_TEXT_LENGTH characters, and they are the first characters of the trimmed selected
\* text: all of them, or the first MAX_TEXT_LENGTH when there are more.
C7_TextLengthWithinBounds ==
  \A content \in {selectedContent, lastSelection} :
    HeldText(content) =>
      /\ content.text.len >= 3
      /\ content.text.len <= 10000
      /\ content.text.start = content.text.of.lead
      /\ content.text.len = Min(content.text.of.body, 10000)

C7_Witness ==
  /\ HeldText(selectedContent)
  /\ selectedContent.text.of.body > 10000
  /\ selectedContent.text.len = 10000

C9_NavigationDiscardsEverything ==
  [][/\ Ran("navigation")
          => selectedContent' = Null /\ lastSelection' = Null /\ selectedImage' = Null
     /\ (selectedContent = Null /\ lastSelection = Null /\ nextOid' = nextOid)
          => (selectedContent' = Null /\ lastSelection' = Null)
     /\ (RanMessage("GET_SELECTED_CONTENT") /\ selectedContent = Null)
          => response'.content = Null]_vars

C9_Witness ==
  /\ lastOp.name = "navigation"
  /\ lastOp.from = "Grace"
  /\ selectedContent = Null /\ lastSelection = Null /\ selectedImage = Null

\* C10: handling GET_SELECTED_CONTENT leaves the current selection, the grace cache and
\* the remembered image as they were, and a query that follows a query with no handler
\* run between them gets the same answer.
C10_QueryIsPureRead ==
  [][RanMessage("GET_SELECTED_CONTENT")
       => /\ UNCHANGED <<selectedContent, lastSelection, selectedImage, nextOid, notified>>
          /\ (lastOp.name = "handleMessage" /\ lastOp.type = "GET_SELECTED_CONTENT")
               => response' = response]_vars

C10_Witness ==
  /\ lastOp.name = "handleMessage"
  /\ lastOp.type = "GET_SELECTED_CONTENT"
  /\ response.kind = "content"
  /\ HeldText(response.content)
  /\ response.content = selectedContent
  /\ now > response.content.timestamp

\* C11: every handler run that makes a Selection (a selectionchange on qualifying text, a
\* right-click on a valid image) hands exactly one CONTENT_SELECTED message to the
\* runtime, carrying the Selection it has just made current; no other step sends
\* anything; and the messages are sent in the order the Selections were made.
C11_OneNotificationPerNewSelection ==
  [][LET made == \/ Ran("handleSelectionChange") /\ SelectedText'.len >= 3
                 \/ Ran("handleContextMenu") /\ isValidImage(lastOp'.target)
     IN /\ made => /\ Len(notified') = Len(notified) + 1
                   /\ SubSeq(notified', 1, Len(notified)) = notified
                   /\ notified'[Len(notified')] = selectedContent'.oid
                   /\ selectedContent'.oid = nextOid
        /\ ~made => notified' = notified
        /\ \A i, j \in 1..Len(notified') : i < j => notified'[i] < notified'[j]]_vars

C11_Witness ==
  /\ lastOp.name = "handleContextMenu"
  /\ HeldImage(selectedContent)
  /\ Len(notified) = 2
  /\ notified[2] = selectedContent.oid
  /\ lastSelection # Null /\ lastSelection.oid = notified[1]

\* C12: when the send of a CONTENT_SELECTED message throws or is rejected, the Selection
\* just made is the current one all the same and the message is not sent again; the
\* handler that runs next answers and sends as it does after a delivered message: a query
\* returns the current selection, and a message is sent only for a newly made Selection.
C12_FailedSendIsSwallowed ==
  [][/\ (now' = now /\ delivery' \in {"threw", "rejected"})
          => /\ selectedContent' # Null
             /\ selectedContent'.oid = nextOid
             /\ nextOid' = nextOid + 1
             /\ notified' = Append(notified, selectedContent'.oid)
     /\ (now' = now /\ delivery \in {"threw", "rejected"})
          => /\ SubSeq(notified', 1, Len(notified)) = notified
             /\ Len(notified') - Len(notified) = nextOid' - nextOid
             /\ RanMessage("GET_SELECTED_CONTENT")
                  => (response'.success /\ response'.content = selectedContent)]_vars

C12_Witness ==
  /\ delivery = "rejected"
  /\ HeldImage(selectedContent)
  /\ selectedContent.oid = 2
  /\ notified = <<1, 2>>

\* C13: a GET_SELECTED_CONTENT message received by the background worker is answered with
\* success and the content script's current selection.
C13_CoordinatorAnswersSelectionQuery ==
  (lastOp.name = "onMessage" /\ lastOp.type = "GET_SELECTED_CONTENT")
    => (response.success /\ response.content = selectedContent)

\* C14: a GET_STORAGE message answered with success carries, for each key asked for that
\* an answered SET_STORAGE wrote last, the value that message gave it, and carries no key
\* that was not asked for.
C14_StorageGetReturnsWhatWasSet ==
  [][(Ran("onMessage") /\ lastOp'.type = "GET_STORAGE" /\ response'.success)
       => /\ DOMAIN response'.data \subseteq lastOp'.keys
          /\ \A k \in lastOp'.keys \cap DOMAIN lastWritten :
               k \in DOMAIN response'.data /\ response'.data[k] = lastWritten[k]]_vars

C14_Witness ==
  /\ lastOp.name = "onMessage" /\ lastOp.type = "GET_STORAGE"
  /\ lastOp.keys = StorageKeys
  /\ initStorage = "done"
  /\ response.success
  /\ DOMAIN lastWritten = StorageKeys
  /\ response.data = lastWritten
  /\ response.data.userSettings = EmptyObject
  /\ response.data.savedContent = defaultSettings

C16_ModelUnavailableMessageStays ==
  (lastOp.name = "initializeInterface" /\ lastOp.finished /\ browser.ai \in {"absent", "no"})
    => (~errorHidden /\ errorMessage = AiUnavailableMessage)

\* C17: a click on retry while an error message is displayed issues again the request
\* whose failure the message reports, and initializeInterface is called only on
\* DOMContentLoaded and on retry.
C17_RetryReissuesFailedRequest ==
  [][/\ (Ran("handleRetry") /\ ~errorHidden /\ errorMessage # "")
          => lastOp'.reissued = RequestBehind(errorMessage)
     /\ Running(inits') > Running(inits) => (Ran("handleRetry") \/ ~loaded)]_vars

C20_SaveWritesSavedItem ==
  (lastOp.name = "handleSave" /\ currentContent # Null) => SavedItemOf(currentContent)

\* C21: whenever the content area shows "No content selected", the four action buttons
\* are disabled, whatever initializations, retries and error messages came before.
C21_NoContentMeansButtonsDisabled ==
  contentDisplay.kind = "none" => \A b \in Buttons : disabled[b]

\* C22: when an initialization has completed while another one, started by Retry, was
\* still awaiting a reply, and the next step completes that other one, the popup shows
\* what the content script answered to the selection query answered last.
C22_LatestQueryWins ==
  [][(/\ lastOp.name = "initializeInterface" /\ lastOp.finished
      /\ Running(inits) = 1
      /\ lastOp'.name = "initializeInterface" /\ lastOp'.finished
      /\ Running(inits') = 0)
     => ReflectsAnswer(getSelectedContentResponse(Tracker))']_vars

\* C23: the initialisation of defaults at install time leaves every key the user has
\* written as the user last wrote it, also when the write comes between the read and the
\* write of initializeStorage.
C23_DefaultsNeverOverwriteStoredData ==
  [][Ran("initializeStorage")
     => \A k \in DOMAIN lastWritten : storage'[k] = lastWritten[k]]_vars

\* C24: every message handled by the worker's listener or by the content script's
\* listener is answered: a response has been passed to sendResponse when the handler
\* is done, whatever the type of the message and whether or not the store failed.
C24_EveryMessageIsAnswered ==
  lastOp.name \in {"onMessage", "handleMessage"} => response # NoResponse

\* C25: an EXTRACT_TEXT request is answered with success only with a text that was
\* extracted, and an EXTRACT_IMAGE request only with the data of a valid image.
C25_ExtractionSuccessMeansExtracted ==
  lastOp.name = "handleMessage" =>
    /\ (lastOp.type = "EXTRACT_TEXT" /\ response.success) => response.text # Null
    /\ (lastOp.type = "EXTRACT_IMAGE" /\ response.success) => response.image # Null

\* C30: a message of a type the receiving listener has no case for is answered with
\* {success: false, error: 'Unknown message type'} and changes nothing: the held
\* Selection, the grace cache and the remembered image in the content script, the model
\* status and the store in the worker.
C30_UnknownTypeRejectedWithoutEffect ==
  [][/\ (Ran("handleMessage") /\ lastOp'.type \in UnhandledByTracker)
          => /\ UnknownTypeAnswer(response')
             /\ UNCHANGED <<selectedContent, lastSelection, selectedImage>>
     /\ (Ran("onMessage") /\ lastOp'.type \in UnhandledByCoordinator)
          => /\ UnknownTypeAnswer(response')
             /\ UNCHANGED <<modelStatus, storage>>]_vars

\* A message of an unknown type has reached the content script while it held a text
\* Selection, its grace cache and a remembered image, and has been rejected.
C30_Witness ==
  /\ lastOp.name = "handleMessage"
  /\ lastOp.type \in UnhandledByTracker
  /\ UnknownTypeAnswer(response)
  /\ HeldText(selectedContent)
  /\ lastSelection # Null
  /\ selectedImage # Null

\* C26: contextBefore and contextAfter hold at most CONTEXT_LENGTH characters each and
\* are (white space at their ends apart) the container text right before and right
\* after the position the text was selected at, also when the same text occurs earlier
\* in the container; both are empty when the selected text is not in the container text.
C26_ContextSurroundsTheSelection ==
  (lastOp.name = "extractContext" /\ lastOp.applied) =>
    LET text == lastOp.containerText
        after == lastOp.at + Len(lastOp.selectedText) IN
    /\ Len(response.contextBefore) <= CONTEXT_LENGTH
    /\ Len(response.contextAfter) <= CONTEXT_LENGTH
    /\ IF lastOp.at = -1
       THEN response.contextBefore = <<>> /\ response.contextAfter = <<>>
       ELSE /\ response.contextBefore =
                 TrimSeq(SeqSubstring(text,
                                      IF lastOp.at > CONTEXT_LENGTH
                                      THEN lastOp.at - CONTEXT_LENGTH ELSE 0,
                                      lastOp.at))
            /\ response.contextAfter =
                 TrimSeq(SeqSubstring(text, after, after + CONTEXT_LENGTH))

C27_CleanupAndHidingSpareTheRest ==
  [][/\ (Tick /\ HeldImage(selectedContent)) => selectedContent' = selectedContent
     /\ HandleVisibilityChange(TRUE)
          => /\ lastSelection' = lastSelection
             /\ HeldText(selectedContent) => selectedContent' = selectedContent
             /\ selectedContent' # selectedContent
                  => (HeldImage(selectedContent) /\ selectedContent' = Null)]_vars

\* The page has been hidden while an image Selection was held and the grace cache held
\* a text Selection: the image Selection is gone, the grace cache is still there.
C27_Witness ==
  /\ selectedContent = Null
  /\ HeldText(lastSelection)
  /\ lastOp.name = "other"

\* C28: a call of enableActionButtons(kind) leaves exactly Summarize, Simplify and
\* Translate enabled for a text, exactly Describe and Translate for an image, and no
\* button for any other kind; so, in every state in which the script has filled the
\* content area (and with it set the buttons), Describe is not enabled together with
\* Summarize or Simplify.
C28_ButtonsFollowContentKind ==
  /\ \A kind \in ContentKinds : \A b \in Buttons :
       enableActionButtons(Popup, kind).disabled[b] = ~Applies(b, kind)
  /\ contentDisplay.kind # "markup"
       => ~(~disabled["describe"] /\ (~disabled["summarize"] \/ ~disabled["simplify"]))

\* A text Selection is shown and an operation on it has just ended: hideLoading has
\* enabled Summarize, Simplify and Translate again, and not Describe.
C28_Witness ==
  /\ lastOp.name = "operation"
  /\ HeldText(currentContent)
  /\ contentDisplay.kind = "text"
  /\ \A b \in Buttons : disabled[b] = (b = "describe")
====
